---- MODULE Spec2Model ----
(***************************************************************************)
(* A model of svelte5-i18n (src/src/lib/i18n.ts, the second, current       *)
(* version of the module in that file, lines 279-750): the resolver        *)
(* (getTranslate, getTranslateWithFallback, t) and the session state       *)
(* (locale store, translations store, options, loaders, persisted          *)
(* preference, asynchronous setLocale / loadLocale / initI18n calls).      *)
(*                                                                         *)
(* Strings are sequences of one-character strings, so that key.split("."), *)
(* the RegExp built from a parameter name and String.prototype.replace are *)
(* computed, not assumed.                                                  *)
(***************************************************************************)
EXTENDS Integers, Sequences, FiniteSets, TLC

VARIABLES
    locale,             \* value of the _locale store (and of the derived locale store)
    translations,       \* value of the translations store: locale code -> node
    globalI18nOptions,  \* the object globalI18nOptions refers to
    defaultOptions,     \* the defaultOptions object (registerLocale can mutate it)
    aliased,            \* TRUE while globalI18nOptions is the defaultOptions object itself
    loaders,            \* the loaders Map: locale code -> kind of loader
    stored,             \* localStorage["preferred-locale"]
    env,                \* the host: browser or server, navigator.language prefix
    calls,              \* the asynchronous calls made so far, each with its position
    invoked,            \* how many times a loader function has been invoked
    call,               \* the last resolver call made (function and arguments)
    ret,                \* what that call returned
    node                \* the element a translate action is attached to

vars == << locale, translations, globalI18nOptions, defaultOptions, aliased,
           loaders, stored, env, calls, invoked, call, ret, node >>

sessionVars == << locale, translations, globalI18nOptions, defaultOptions, aliased,
                  loaders, stored, env, calls, invoked, node >>

None == "none"

(***************************************************************************)
(* Bounds of the model.                                                    *)
(***************************************************************************)
MaxKeyLen == 3      \* longest key, in characters
MaxNodes == 2       \* most nodes (entries) in a resolver dataset
MaxCalls == 2       \* most asynchronous calls in one behaviour
MaxTemplateLen == 4 \* longest template, in characters
MaxParams == 2      \* most entries of a parameter object

(***************************************************************************)
(* JavaScript values.                                                      *)
(* A node of a translation tree is an object (kids: property -> node), a   *)
(* string, some other truthy non-string leaf (a number, true), or a        *)
(* nullish value (null, undefined).                                        *)
(***************************************************************************)
Str(s) == [kind |-> "string", str |-> s, kids |-> <<>>]
Obj(f) == [kind |-> "object", str |-> <<>>, kids |-> f]
Other == [kind |-> "other", str |-> <<>>, kids |-> <<>>]
Nullish == [kind |-> "nullish", str |-> <<>>, kids |-> <<>>]

\* JavaScript truthiness of a node: null, undefined and "" are falsy.
Truthy(n) == /\ n.kind # "nullish"
             /\ ~(n.kind = "string" /\ n.str = <<>>)

\* translations[l]: undefined when the dataset has no property l.
Lookup(tr, l) == IF l \in DOMAIN tr THEN tr[l] ELSE Nullish

\* A resolver result: a returned string, or a thrown SyntaxError.
Returned(s) == [thrown |-> FALSE, val |-> s]
Thrown == [thrown |-> TRUE, val |-> <<>>]

(***************************************************************************)
(* key.split("."): "" gives [""], "a." gives ["a", ""].                    *)
(***************************************************************************)
RECURSIVE SplitAcc(_, _, _)
SplitAcc(s, cur, acc) ==
    IF s = <<>> THEN Append(acc, cur)
    ELSE IF Head(s) = "." THEN SplitAcc(Tail(s), <<>>, Append(acc, cur))
    ELSE SplitAcc(Tail(s), Append(cur, Head(s)), acc)

\* A variant: the key is not split, the whole key is one property name.
split_Unsplit(key) == <<key>>

split(key) == SplitAcc(key, <<>>, <<>>)

(***************************************************************************)
(* String(paramValue): a string is itself, a number its decimal digits.    *)
(***************************************************************************)
DigitChars == <<"0", "1", "2", "3", "4", "5", "6", "7", "8", "9">>

RECURSIVE DecStr(_)
DecStr(n) == IF n < 10 THEN <<DigitChars[n + 1]>>
             ELSE DecStr(n \div 10) \o <<DigitChars[(n % 10) + 1]>>

StrVal(s) == [num |-> FALSE, s |-> s, n |-> 0]
NumVal(n) == [num |-> TRUE, s |-> <<>>, n |-> n]

String(v) == IF v.num THEN DecStr(v.n) ELSE v.s

(***************************************************************************)
(* Parameters as the caller passes them: nothing, an object (its entries   *)
(* in Object.entries order) or, when the caller passes a key where the     *)
(* parameters are expected, a string.                                      *)
(***************************************************************************)
NoParams == [ptype |-> "undefined", entries |-> <<>>, s |-> <<>>]
ParamsObj(es) == [ptype |-> "object", entries |-> es, s |-> <<>>]
ParamsStr(s) == [ptype |-> "string", entries |-> <<>>, s |-> s]

\* if (params): undefined and "" are falsy, every object is truthy.
ParamsTruthy(p) == \/ p.ptype = "object"
                   \/ p.ptype = "string" /\ p.s # <<>>

\* Object.entries(params): of a string, its characters under their indices.
ObjectEntries(p) ==
    IF p.ptype = "string"
    THEN [i \in 1..Len(p.s) |-> <<DecStr(i - 1), StrVal(<<p.s[i]>>)>>]
    ELSE p.entries

(***************************************************************************)
(* new RegExp(`{${paramKey}}`, "g").  For the characters used here: a      *)
(* letter, "{" and "}" match themselves, "." matches any character, and a  *)
(* pattern of the form {digits}, {digits,} or {digits,digits} is a         *)
(* quantifier with nothing to repeat: the constructor throws SyntaxError.  *)
(***************************************************************************)
DigitSet == {DigitChars[i] : i \in 1..10}

AllDigits(s) == s # <<>> /\ \A i \in 1..Len(s) : s[i] \in DigitSet

IsQuantifier(paramKey) ==
    \/ AllDigits(paramKey)
    \/ \E c \in 1..Len(paramKey) :
          /\ paramKey[c] = ","
          /\ AllDigits(SubSeq(paramKey, 1, c - 1))
          /\ \/ c = Len(paramKey)
             \/ AllDigits(SubSeq(paramKey, c + 1, Len(paramKey)))

RegExpSource(paramKey) == <<"{">> \o paramKey \o <<"}">>

RegExpThrows(paramKey) == IsQuantifier(paramKey)

\* The pattern character p of the source matches the subject character c.
PatternCharMatches(p, c) == p = "." \/ p = c

MatchesAt(str, i, pat) ==
    /\ i + Len(pat) - 1 <= Len(str)
    /\ \A j \in 1..Len(pat) : PatternCharMatches(pat[j], str[i + j - 1])

(***************************************************************************)
(* The replacement string of String.prototype.replace is a template: "$$"  *)
(* stands for "$" and "$&" for the matched text; a "$" before any other    *)
(* character used here stands for itself.                                  *)
(***************************************************************************)
RECURSIVE GetSubstitution(_, _)
GetSubstitution(matched, replacement) ==
    IF replacement = <<>> THEN <<>>
    ELSE IF Head(replacement) = "$" /\ Len(replacement) >= 2
              /\ replacement[2] = "$"
         THEN <<"$">> \o GetSubstitution(matched, Tail(Tail(replacement)))
    ELSE IF Head(replacement) = "$" /\ Len(replacement) >= 2
              /\ replacement[2] = "&"
         THEN matched \o GetSubstitution(matched, Tail(Tail(replacement)))
    ELSE <<Head(replacement)>> \o GetSubstitution(matched, Tail(replacement))

\* str.replace(regexp with flag g, replacement), scanning from position i.
RECURSIVE ReplaceFrom(_, _, _, _)
ReplaceFrom(str, i, pat, replacement) ==
    IF i > Len(str) THEN <<>>
    ELSE IF MatchesAt(str, i, pat)
         THEN GetSubstitution(SubSeq(str, i, i + Len(pat) - 1), replacement)
                 \o ReplaceFrom(str, i + Len(pat), pat, replacement)
    ELSE <<str[i]>> \o ReplaceFrom(str, i + 1, pat, replacement)

replace(str, paramKey, replacement) ==
    ReplaceFrom(str, 1, RegExpSource(paramKey), replacement)

\* Object.entries(params).reduce(...): one replace per entry, in order, each
\* on the result of the one before; a throwing RegExp ends the reduction.
RECURSIVE Reduce(_, _)
Reduce(str, entries) ==
    IF entries = <<>> THEN Returned(str)
    ELSE IF RegExpThrows(Head(entries)[1]) THEN Thrown
    ELSE Reduce(replace(str, Head(entries)[1], String(Head(entries)[2])),
                Tail(entries))

(***************************************************************************)
(* getTranslate.                                                           *)
(***************************************************************************)
\* The for loop over the segments; Nullish stands for the early return.
RECURSIVE Descend(_, _)
Descend(result, keys) ==
    IF keys = <<>> THEN result
    ELSE IF Truthy(result) /\ result.kind = "object"
              /\ Head(keys) \in DOMAIN result.kids
         THEN Descend(result.kids[Head(keys)], Tail(keys))
    ELSE Nullish

\* A variant: a miss returns the value reached (nothing) instead of the key.
getTranslate_MissEmpty(l, tr, key, params) ==
    LET result == Descend(IF Truthy(Lookup(tr, l)) THEN Lookup(tr, l) ELSE Obj(<<>>),
                          split(key))
    IN  IF result.kind # "string" THEN Returned(<<>>)
        ELSE IF ParamsTruthy(params) THEN Reduce(result.str, ObjectEntries(params))
        ELSE Returned(result.str)

getTranslate(l, tr, key, params) ==
    LET localeTranslations ==
            IF Truthy(Lookup(tr, l)) THEN Lookup(tr, l) ELSE Obj(<<>>)
        result == Descend(localeTranslations, split(key))
    IN  IF result.kind # "string" THEN Returned(key)
        ELSE IF ParamsTruthy(params) THEN Reduce(result.str, ObjectEntries(params))
        ELSE Returned(result.str)

(***************************************************************************)
(* Options.  supportedLocales is kept as a set: the code only tests        *)
(* membership (includes) and appends a locale that is not yet a member.    *)
(***************************************************************************)
Options(dl, sl, lp, fl, dbg, mtw) ==
    [defaultLocale |-> dl, supportedLocales |-> sl, loadPath |-> lp,
     fallbackLocale |-> fl, debug |-> dbg, missingTranslationWarnings |-> mtw]

DefaultOptionsValue ==
    Options("ja", {"ja", "en"}, "/i18n/locales/{locale}.json", None, FALSE, FALSE)

(***************************************************************************)
(* getTranslateWithFallback and its diagnostic variant: options is what    *)
(* getI18nOptions() returns when the function runs.                        *)
(***************************************************************************)
getTranslateWithFallback(options, l, tr, key, params) ==
    LET result == getTranslate(l, tr, key, params)
    IN  IF /\ ~result.thrown
           /\ result.val = key
           /\ options.fallbackLocale # None
           /\ l # options.fallbackLocale
        THEN getTranslate(options.fallbackLocale, tr, key, params)
        ELSE result

\* The diagnostic variant returning the miss of the current locale where it
\* should return the fallback locale's result.
getTranslateWithFallbackDebug_KeepsMiss(options, l, tr, key, params) ==
    getTranslate(l, tr, key, params)

getTranslateWithFallbackDebug(options, l, tr, key, params) ==
    LET result == getTranslate(l, tr, key, params)
    IN  IF /\ ~result.thrown
           /\ result.val = key
           /\ options.fallbackLocale # None
           /\ l # options.fallbackLocale
        THEN LET fallbackResult ==
                     getTranslate(options.fallbackLocale, tr, key, params)
             IN  fallbackResult
        ELSE result

(***************************************************************************)
(* The function held by the t store: (key, params) => string.  A caller    *)
(* may pass more arguments than the two it declares; they are dropped.     *)
(***************************************************************************)
\* A variant: a key in second place is looked up when the first key misses, and
\* its own miss (the second key) is returned.
t_ReturnsFallbackKey(options, l, tr, key, params) ==
    IF params.ptype = "string"
    THEN LET result == getTranslateWithFallback(options, l, tr, key, NoParams)
         IN  IF ~result.thrown /\ result.val = key
             THEN getTranslateWithFallback(options, l, tr, params.s, NoParams)
             ELSE result
    ELSE getTranslateWithFallback(options, l, tr, key, params)

t(options, l, tr, key, params) ==
    IF options.debug /\ options.missingTranslationWarnings
    THEN getTranslateWithFallbackDebug(options, l, tr, key, params)
    ELSE getTranslateWithFallback(options, l, tr, key, params)

(***************************************************************************)
(* Inputs of the resolver: keys, trees, datasets, parameters.              *)
(***************************************************************************)
KeyChars == {"a", "A", "."}

SeqsUpTo(S, n) == UNION {[1..m -> S] : m \in 0..n}

Keys == SeqsUpTo(KeyChars, MaxKeyLen)

\* The property name of the trees; the keys also spell "A" and "aa".
Segs == {<<"a">>}

\* Leaves: a text equal to the key "a", a template, a non-string leaf.
LeafNodes == {Str(<<"a">>), Str(<<"{", "n", "}">>), Other}

RECURSIVE NodeSize(_)
RECURSIVE KidsSize(_, _)
KidsSize(f, D) ==
    IF D = {} THEN 0
    ELSE LET d == CHOOSE x \in D : TRUE
         IN  NodeSize(f[d]) + KidsSize(f, D \ {d})
NodeSize(n) == 1 + (IF n.kind = "object" THEN KidsSize(n.kids, DOMAIN n.kids) ELSE 0)

\* The property maps of at most n nodes.
RECURSIVE Trees(_)
Trees(n) ==
    IF n = 0 THEN {<<>>}
    ELSE {f \in UNION {[D -> LeafNodes \cup {Obj(g) : g \in Trees(n - 1)}] :
                          D \in SUBSET Segs} :
             KidsSize(f, DOMAIN f) <= n}

ResolveLocales == {"ja", "en"}

\* The datasets of at most n nodes over the locales ja and en.
DataSets(n) ==
    {d \in UNION {[L -> {Obj(f) : f \in Trees(n)}] : L \in SUBSET ResolveLocales} :
        KidsSize(d, DOMAIN d) <= n + Cardinality(DOMAIN d)}

\* Parameters of the structural calls, and the keys passed as a second
\* argument (the call shape of tests/i18n.test.ts, lines 96-117).
ResolveParams == {NoParams, ParamsObj(<< <<<<"n">>, StrVal(<<"a">>)>> >>)}
FallbackKeys == {<<"a">>, <<"A">>, <<"a", ".", "a">>}

NoCall == [fn |-> None, key |-> <<>>, arg2 |-> NoParams, arg3 |-> NoParams]

\* An element no translate action is attached to.
Detached == [attached |-> FALSE, key |-> <<>>, params |-> NoParams, text |-> <<>>]

(***************************************************************************)
(* SpecResolve: the stores hold any dataset and fallback locale; the       *)
(* resolver functions are called on them.  The functions leave the stores  *)
(* alone, so one call per behaviour shows all a later call would.          *)
(***************************************************************************)
InitResolve ==
    /\ locale = "ja"
    /\ translations \in DataSets(MaxNodes)
    /\ \E fl \in {None, "ja", "en"} :
          globalI18nOptions = [DefaultOptionsValue EXCEPT !.fallbackLocale = fl]
    /\ defaultOptions = DefaultOptionsValue
    /\ aliased = FALSE
    /\ loaders = <<>>
    /\ stored = None
    /\ env = [browser |-> FALSE, language |-> "en"]
    /\ calls = <<>>
    /\ invoked = 0
    /\ call = NoCall
    /\ ret = Returned(<<>>)
    /\ node = Detached

\* No resolver call has been made yet in this behaviour.
Idle == call = NoCall

CallGetTranslate(key, params) ==
    /\ Idle
    /\ call' = [fn |-> "getTranslate", key |-> key, arg2 |-> params, arg3 |-> NoParams]
    /\ ret' = getTranslate(locale, translations, key, params)
    /\ UNCHANGED sessionVars

\* getTranslateWithFallback that makes the fallback locale the current one
\* when it has to use it.
CallGetTranslateWithFallback_Switches(key, params) ==
    /\ Idle
    /\ call' = [fn |-> "getTranslateWithFallback", key |-> key, arg2 |-> params,
                arg3 |-> NoParams]
    /\ ret' = getTranslateWithFallback(globalI18nOptions, locale, translations,
                                       key, params)
    /\ locale' = IF /\ globalI18nOptions.fallbackLocale # None
                    /\ getTranslate(locale, translations, key, params) = Returned(key)
                 THEN globalI18nOptions.fallbackLocale
                 ELSE locale
    /\ UNCHANGED << translations, globalI18nOptions, defaultOptions, aliased,
                    loaders, stored, env, calls, invoked, node >>

CallGetTranslateWithFallback(key, params) ==
    /\ Idle
    /\ call' = [fn |-> "getTranslateWithFallback", key |-> key, arg2 |-> params,
                arg3 |-> NoParams]
    /\ ret' = getTranslateWithFallback(globalI18nOptions, locale, translations,
                                       key, params)
    /\ UNCHANGED sessionVars

\* $t(key, arg2, arg3): the function takes (key, params), so arg3 is dropped.
CallT(key, arg2, arg3) ==
    /\ Idle
    /\ call' = [fn |-> "t", key |-> key, arg2 |-> arg2, arg3 |-> arg3]
    /\ ret' = t(globalI18nOptions, locale, translations, key, arg2)
    /\ UNCHANGED sessionVars

NextResolve ==
    \/ Idle /\ \E key \in Keys, params \in ResolveParams :
                  CallGetTranslate(key, params)
    \/ Idle /\ \E key \in Keys, params \in ResolveParams :
                  CallGetTranslateWithFallback(key, params)
    \/ Idle /\ \E key \in Keys, params \in ResolveParams :
                  CallT(key, params, NoParams)
    \/ Idle /\ \E key \in Keys, fallbackKey \in FallbackKeys,
                     params \in ResolveParams :
                  CallT(key, ParamsStr(fallbackKey), params)

SpecResolve == InitResolve /\ [][NextResolve]_vars

(***************************************************************************)
(* SpecDebug: as SpecResolve, with the two diagnostic options set any way; *)
(* the function held by t is called.  tests/i18n.test.ts sets both.        *)
(***************************************************************************)
InitDebug ==
    /\ locale = "ja"
    /\ translations \in DataSets(MaxNodes)
    /\ \E fl \in {None, "ja", "en"}, dbg \in BOOLEAN, mtw \in BOOLEAN :
          globalI18nOptions = [DefaultOptionsValue EXCEPT
                                  !.fallbackLocale = fl,
                                  !.debug = dbg,
                                  !.missingTranslationWarnings = mtw]
    /\ defaultOptions = DefaultOptionsValue
    /\ aliased = FALSE
    /\ loaders = <<>>
    /\ stored = None
    /\ env = [browser |-> FALSE, language |-> "en"]
    /\ calls = <<>>
    /\ invoked = 0
    /\ call = NoCall
    /\ ret = Returned(<<>>)
    /\ node = Detached

NextDebug ==
    Idle /\ \E key \in Keys, params \in ResolveParams : CallT(key, params, NoParams)

SpecDebug == InitDebug /\ [][NextDebug]_vars

(***************************************************************************)
(* SpecInterp: the dataset holds one template under ja.a; getTranslate is  *)
(* called on it with every parameter object.                               *)
(***************************************************************************)
TemplateChars == {"{", "n", "}"}
Templates == SeqsUpTo(TemplateChars, MaxTemplateLen)

ParamKeys == {<<"n">>, <<"m">>, <<"0">>}
ParamValues == {NumVal(12), StrVal(<<"$", "&">>), StrVal(<<"$", "$">>),
                StrVal(<<"{", "m", "}">>)}

\* The entry lists of at most n entries: a property occurs once.
EntryLists(n) ==
    {es \in SeqsUpTo(ParamKeys \X ParamValues, n) :
        \A i, j \in 1..Len(es) : i # j => es[i][1] # es[j][1]}

InterpParams == {NoParams} \cup {ParamsObj(es) : es \in EntryLists(MaxParams)}

InitInterp ==
    /\ locale = "ja"
    /\ \E template \in Templates :
          translations = [l \in {"ja"} |-> Obj([k \in Segs |-> Str(template)])]
    /\ globalI18nOptions = DefaultOptionsValue
    /\ defaultOptions = DefaultOptionsValue
    /\ aliased = FALSE
    /\ loaders = <<>>
    /\ stored = None
    /\ env = [browser |-> FALSE, language |-> "en"]
    /\ calls = <<>>
    /\ invoked = 0
    /\ call = NoCall
    /\ ret = Returned(<<>>)
    /\ node = Detached

NextInterp ==
    Idle /\ \E params \in InterpParams : CallGetTranslate(<<"a">>, params)

SpecInterp == InitInterp /\ [][NextInterp]_vars

(***************************************************************************)
(* The session: stores, options, loaders, persisted preference, and the    *)
(* asynchronous functions.  An async function runs to its first await in   *)
(* the step that calls it; each continuation is a step of its own, so      *)
(* calls in flight interleave as the event loop lets them.                 *)
(***************************************************************************)
Locales == {"ja", "en", "fr"}

\* Data a loader or a direct registration can supply.
TreeA == Obj([k \in Segs |-> Str(<<"a">>)])
TreeB == Obj([k \in Segs |-> Str(<<"{", "n", "}">>)])

\* {...currentTranslations, [l]: data}
Merge(tr, l, data) ==
    [x \in DOMAIN tr \cup {l} |-> IF x = l THEN data ELSE tr[x]]

\* updateText of the translate action on element n:
\* node.textContent = getTranslateWithFallback(...).  When the resolver throws,
\* the assignment does not happen and the text stays.
updateText(n, l, tr, options) ==
    LET result == getTranslateWithFallback(options, l, tr, n.key, n.params)
    IN  IF result.thrown THEN n ELSE [n EXCEPT !.text = result.val]

updateTextThrows(n, l, tr, options) ==
    getTranslateWithFallback(options, l, tr, n.key, n.params).thrown

\* A store has been set, the stores now hold (l, tr) and the configuration is
\* options: the subscriber of an attached action runs updateText.  Its error,
\* if any, is thrown to the code that set the store.
Notified(l, tr, options) ==
    IF node.attached THEN updateText(node, l, tr, options) ELSE node

SubscriberThrows(l, tr, options) ==
    node.attached /\ updateTextThrows(node, l, tr, options)

\* _locale.set(newLocale): the derived locale store notifies only when the
\* value differs.
LocaleSetNode(newLocale, options) ==
    IF newLocale # locale THEN Notified(newLocale, translations, options) ELSE node

LocaleSetThrows(newLocale, options) ==
    newLocale # locale /\ SubscriberThrows(newLocale, translations, options)

\* The options argument of initI18n: a locale property that is absent is None,
\* and supportedLocales counts only when hasSupported says it is present.
InitArg(dl, has, fl) ==
    [defaultLocale |-> dl, hasSupported |-> has, supportedLocales |-> {"ja", "en"},
     fallbackLocale |-> fl]

\* initI18n() without an argument; the options field of every other call.
NoOptions == InitArg(None, FALSE, None)

\* An async call: which function, its argument, the branch it took, where it
\* stands, how its promise has settled, how the promise of the loader it
\* awaited has settled ("none" while it has not), and for initI18n the
\* options it was given.
Call(op, arg, via, pc, outcome) ==
    [op |-> op, arg |-> arg, via |-> via, pc |-> pc, outcome |-> outcome,
     loader |-> "none", options |-> NoOptions]

resolverVars == << call, ret >>

\* setI18nOptions: globalI18nOptions = {...globalI18nOptions, ...options},
\* a new object; every option passed here carries all six properties.
setI18nOptions(options) ==
    /\ globalI18nOptions' = options
    /\ aliased' = FALSE

\* initI18n(), the call of README.md lines 26-29, one with a fallbackLocale,
\* one whose defaultLocale is outside the default supportedLocales.
InitArgs ==
    {InitArg(None, FALSE, None), InitArg("en", TRUE, None),
     InitArg(None, FALSE, "en"), InitArg("fr", FALSE, None)}

\* initI18n that merges the options into the current configuration instead
\* of the defaults: { ...globalI18nOptions, ...options }.
MergedOptions_FromGlobal(options) ==
    LET opts == [globalI18nOptions EXCEPT
                    !.defaultLocale = IF options.defaultLocale # None
                                      THEN options.defaultLocale ELSE @,
                    !.supportedLocales = IF options.hasSupported
                                         THEN options.supportedLocales ELSE @,
                    !.fallbackLocale = IF options.fallbackLocale # None
                                       THEN options.fallbackLocale ELSE @]
    IN  IF opts.fallbackLocale = None /\ opts.defaultLocale # None
        THEN [opts EXCEPT !.fallbackLocale = opts.defaultLocale]
        ELSE opts

\* { ...defaultOptions, ...options }, then the fallbackLocale default.
MergedOptions(options) ==
    LET opts == [defaultOptions EXCEPT
                    !.defaultLocale = IF options.defaultLocale # None
                                      THEN options.defaultLocale ELSE @,
                    !.supportedLocales = IF options.hasSupported
                                         THEN options.supportedLocales ELSE @,
                    !.fallbackLocale = IF options.fallbackLocale # None
                                       THEN options.fallbackLocale ELSE @]
    IN  IF opts.fallbackLocale = None /\ opts.defaultLocale # None
        THEN [opts EXCEPT !.fallbackLocale = opts.defaultLocale]
        ELSE opts

\* loadLocale up to its first await: without a loader it returns undefined
\* (its promise is fulfilled); with one, the loader is invoked and awaited.
LoadStartPc(l) == IF l \in DOMAIN loaders THEN "loading" ELSE "loaded"
LoadStartVia(l) == IF l \in DOMAIN loaders THEN "loader" ELSE "noloader"
LoadStartInvoked(l) == IF l \in DOMAIN loaders THEN invoked + 1 ELSE invoked

InitSession ==
    /\ locale = "en"
    /\ translations = <<>>
    /\ globalI18nOptions = DefaultOptionsValue
    /\ defaultOptions = DefaultOptionsValue
    /\ aliased = TRUE
    /\ loaders = <<>>
    /\ env \in [browser : BOOLEAN, language : {"en", "fr"}]
    /\ stored \in (IF env.browser THEN {None, "fr"} ELSE {None})
    /\ calls = <<>>
    /\ invoked = 0
    /\ call = NoCall
    /\ ret = Returned(<<>>)
    /\ node = Detached

\* registerLocale that makes the locale the whole list instead of appending it.
RegisterLocale_Replaces(l, mode, data) ==
    /\ IF l \notin globalI18nOptions.supportedLocales
       THEN LET options == [globalI18nOptions EXCEPT !.supportedLocales = {l}]
            IN  /\ setI18nOptions(options)
                /\ defaultOptions' = IF aliased THEN options ELSE defaultOptions
       ELSE UNCHANGED << globalI18nOptions, aliased, defaultOptions >>
    /\ IF mode = "data"
       THEN /\ translations' = Merge(translations, l, data)
            /\ node' = Notified(locale, Merge(translations, l, data),
                                globalI18nOptions')
            /\ UNCHANGED loaders
       ELSE /\ loaders' = [x \in DOMAIN loaders \cup {l} |->
                              IF x = l THEN (IF mode = "loader" THEN "import" ELSE "fetch")
                              ELSE loaders[x]]
            /\ UNCHANGED << translations, node >>
    /\ UNCHANGED << locale, stored, env, calls, invoked, resolverVars >>

\* registerLocale(l, translationsOrLoader): mode "loader" is a function,
\* "data" a translation record, "path" nothing (the loadPath fetch loader).
RegisterLocale(l, mode, data) ==
    /\ IF l \notin globalI18nOptions.supportedLocales
       THEN LET options == [globalI18nOptions EXCEPT
                               !.supportedLocales = @ \cup {l}]
            IN  /\ setI18nOptions(options)
                /\ defaultOptions' = IF aliased THEN options ELSE defaultOptions
       ELSE UNCHANGED << globalI18nOptions, aliased, defaultOptions >>
    /\ IF mode = "data"
       THEN /\ translations' = Merge(translations, l, data)
            /\ node' = Notified(locale, Merge(translations, l, data),
                                globalI18nOptions')
            /\ UNCHANGED loaders
       ELSE /\ loaders' = [x \in DOMAIN loaders \cup {l} |->
                              IF x = l THEN (IF mode = "loader" THEN "import" ELSE "fetch")
                              ELSE loaders[x]]
            /\ UNCHANGED << translations, node >>
    /\ UNCHANGED << locale, stored, env, calls, invoked, resolverVars >>

\* setTranslations(newTranslations)
SetTranslations(newTranslations) ==
    /\ translations' = newTranslations
    /\ node' = Notified(locale, newTranslations, globalI18nOptions)
    /\ UNCHANGED << locale, globalI18nOptions, defaultOptions, aliased, loaders,
                    stored, env, calls, invoked, resolverVars >>

\* await loadLocale(l), called by the program itself.
LoadLocale(l) ==
    /\ Len(calls) < MaxCalls
    /\ calls' = Append(calls,
                       Call("loadLocale", l, LoadStartVia(l),
                            IF l \in DOMAIN loaders THEN "loading" ELSE "done",
                            IF l \in DOMAIN loaders THEN "pending" ELSE "resolved"))
    /\ invoked' = LoadStartInvoked(l)
    /\ UNCHANGED << locale, translations, globalI18nOptions, defaultOptions, aliased,
                    loaders, stored, env, resolverVars, node >>

\* initI18n that lets the browser language win over the stored preference.
InitI18n_BrowserFirst(options) ==
    /\ Len(calls) < MaxCalls
    /\ LET opts == MergedOptions(options)
           initialLocale ==
               IF env.language \in opts.supportedLocales THEN env.language
               ELSE IF stored # None THEN stored
               ELSE opts.defaultLocale
           newLocale == IF env.browser THEN initialLocale ELSE opts.defaultLocale
       IN  /\ setI18nOptions(opts)
           /\ locale' = newLocale
           /\ node' = LocaleSetNode(newLocale, opts)
           /\ IF LocaleSetThrows(newLocale, opts)
              THEN /\ calls' = Append(calls,
                                      [Call("initI18n", newLocale, "thrown",
                                            "done", "rejected")
                                          EXCEPT !.options = options])
                   /\ UNCHANGED invoked
              ELSE IF env.browser
              THEN /\ calls' = Append(calls,
                                      [Call("initI18n", initialLocale,
                                            LoadStartVia(initialLocale),
                                            LoadStartPc(initialLocale), "pending")
                                          EXCEPT !.options = options])
                   /\ invoked' = LoadStartInvoked(initialLocale)
              ELSE /\ calls' = Append(calls,
                                      [Call("initI18n", opts.defaultLocale, "server",
                                            "done", "resolved")
                                          EXCEPT !.options = options])
                   /\ UNCHANGED invoked
    /\ UNCHANGED << translations, defaultOptions, loaders, stored, env, resolverVars >>

\* initI18n(options) up to its first await.
InitI18n(options) ==
    /\ Len(calls) < MaxCalls
    /\ LET opts == MergedOptions(options)
           initialLocale ==
               IF stored # None THEN stored
               ELSE IF env.language \in opts.supportedLocales THEN env.language
               ELSE opts.defaultLocale
           newLocale == IF env.browser THEN initialLocale ELSE opts.defaultLocale
       IN  /\ setI18nOptions(opts)
           /\ locale' = newLocale
           /\ node' = LocaleSetNode(newLocale, opts)
           /\ IF LocaleSetThrows(newLocale, opts)
              THEN /\ calls' = Append(calls,
                                      [Call("initI18n", newLocale, "thrown",
                                            "done", "rejected")
                                          EXCEPT !.options = options])
                   /\ UNCHANGED invoked
              ELSE IF env.browser
              THEN /\ calls' = Append(calls,
                                      [Call("initI18n", initialLocale,
                                            LoadStartVia(initialLocale),
                                            LoadStartPc(initialLocale), "pending")
                                          EXCEPT !.options = options])
                   /\ invoked' = LoadStartInvoked(initialLocale)
              ELSE /\ calls' = Append(calls,
                                      [Call("initI18n", opts.defaultLocale, "server",
                                            "done", "resolved")
                                          EXCEPT !.options = options])
                   /\ UNCHANGED invoked
    /\ UNCHANGED << translations, defaultOptions, loaders, stored, env, resolverVars >>

\* _locale.set(newLocale); localStorage.setItem("preferred-locale", newLocale)
SwitchTo(newLocale) ==
    /\ locale' = newLocale
    /\ node' = LocaleSetNode(newLocale, globalI18nOptions)
    /\ stored' = IF env.browser /\ ~LocaleSetThrows(newLocale, globalI18nOptions)
                 THEN newLocale ELSE stored

\* How setLocale ends after its switch: a subscriber's error rejects it.
SwitchOutcome(newLocale) ==
    IF LocaleSetThrows(newLocale, globalI18nOptions) THEN "rejected" ELSE "resolved"

\* setLocale that loads whether or not the dataset holds the locale.
SetLocale_AlwaysLoads(newLocale) ==
    /\ Len(calls) < MaxCalls
    /\ IF newLocale \notin globalI18nOptions.supportedLocales
       THEN /\ calls' = Append(calls, Call("setLocale", newLocale, "unsupported",
                                           "done", "resolved"))
            /\ UNCHANGED << locale, stored, invoked, node >>
       ELSE IF TRUE
       THEN /\ calls' = Append(calls, Call("setLocale", newLocale,
                                           LoadStartVia(newLocale),
                                           LoadStartPc(newLocale), "pending"))
            /\ invoked' = LoadStartInvoked(newLocale)
            /\ UNCHANGED << locale, stored, node >>
       ELSE /\ SwitchTo(newLocale)
            /\ calls' = Append(calls, Call("setLocale", newLocale, "present",
                                           "done", SwitchOutcome(newLocale)))
            /\ UNCHANGED invoked
    /\ UNCHANGED << translations, globalI18nOptions, defaultOptions, aliased,
                    loaders, env, resolverVars >>

\* setLocale without the supportedLocales check of lines 645-650.
SetLocale_NoCheck(newLocale) ==
    /\ Len(calls) < MaxCalls
    /\ IF ~Truthy(Lookup(translations, newLocale))
       THEN /\ calls' = Append(calls, Call("setLocale", newLocale,
                                           LoadStartVia(newLocale),
                                           LoadStartPc(newLocale), "pending"))
            /\ invoked' = LoadStartInvoked(newLocale)
            /\ UNCHANGED << locale, stored, node >>
       ELSE /\ SwitchTo(newLocale)
            /\ calls' = Append(calls, Call("setLocale", newLocale, "present",
                                           "done", SwitchOutcome(newLocale)))
            /\ UNCHANGED invoked
    /\ UNCHANGED << translations, globalI18nOptions, defaultOptions, aliased,
                    loaders, env, resolverVars >>

\* setLocale(newLocale) up to its first await, or to its end if it awaits nothing.
SetLocale(newLocale) ==
    /\ Len(calls) < MaxCalls
    /\ IF newLocale \notin globalI18nOptions.supportedLocales
       THEN /\ calls' = Append(calls, Call("setLocale", newLocale, "unsupported",
                                           "done", "resolved"))
            /\ UNCHANGED << locale, stored, invoked, node >>
       ELSE IF ~Truthy(Lookup(translations, newLocale))
       THEN /\ calls' = Append(calls, Call("setLocale", newLocale,
                                           LoadStartVia(newLocale),
                                           LoadStartPc(newLocale), "pending"))
            /\ invoked' = LoadStartInvoked(newLocale)
            /\ UNCHANGED << locale, stored, node >>
       ELSE /\ SwitchTo(newLocale)
            /\ calls' = Append(calls, Call("setLocale", newLocale, "present",
                                           "done", SwitchOutcome(newLocale)))
            /\ UNCHANGED invoked
    /\ UNCHANGED << translations, globalI18nOptions, defaultOptions, aliased,
                    loaders, env, resolverVars >>

\* Call c after its loader fulfilled and the data was stored: loadLocale
\* returns, unless setTranslations threw a subscriber's error, which loadLocale
\* rethrows like a loader's.
AfterLoad(c, threw) ==
    IF c.op = "loadLocale"
    THEN [c EXCEPT !.pc = "done",
                   !.outcome = IF threw THEN "rejected" ELSE "resolved",
                   !.loader = "fulfilled"]
    ELSE [c EXCEPT !.pc = IF threw THEN "failed" ELSE "loaded",
                   !.loader = "fulfilled"]

\* loadLocale that stores only the loaded locale: [locale]: localeData without
\* the spread of the current dataset.
LoaderResolves_Overwrites(i, data) ==
    /\ calls[i].pc = "loading"
    /\ translations' = Merge(<<>>, calls[i].arg, data)
    /\ node' = Notified(locale, translations', globalI18nOptions)
    /\ calls' = [calls EXCEPT ![i] =
                    AfterLoad(@, SubscriberThrows(locale, translations',
                                                  globalI18nOptions))]
    /\ UNCHANGED << locale, globalI18nOptions, defaultOptions, aliased, loaders,
                    stored, env, invoked, resolverVars >>

\* loadLocale that drops the data of a locale that is not the current one.
LoaderResolves_DropsStale(i, data) ==
    /\ calls[i].pc = "loading"
    /\ translations' = IF calls[i].arg = locale
                       THEN Merge(translations, calls[i].arg, data)
                       ELSE translations
    /\ node' = Notified(locale, translations', globalI18nOptions)
    /\ calls' = [calls EXCEPT ![i] =
                    AfterLoad(@, SubscriberThrows(locale, translations',
                                                  globalI18nOptions))]
    /\ UNCHANGED << locale, globalI18nOptions, defaultOptions, aliased, loaders,
                    stored, env, invoked, resolverVars >>

\* The loader awaited by call i fulfils with data: loadLocale merges it into
\* the dataset as it is then, and returns.
LoaderResolves(i, data) ==
    /\ calls[i].pc = "loading"
    /\ translations' = Merge(translations, calls[i].arg, data)
    /\ node' = Notified(locale, translations', globalI18nOptions)
    /\ calls' = [calls EXCEPT ![i] =
                    AfterLoad(@, SubscriberThrows(locale, translations',
                                                  globalI18nOptions))]
    /\ UNCHANGED << locale, globalI18nOptions, defaultOptions, aliased, loaders,
                    stored, env, invoked, resolverVars >>

\* loadLocale whose catch block stores an empty tree for the locale.
LoaderRejects_Merges(i) ==
    /\ calls[i].pc = "loading"
    /\ translations' = Merge(translations, calls[i].arg, Obj(<<>>))
    /\ node' = Notified(locale, translations', globalI18nOptions)
    /\ calls' = [calls EXCEPT ![i] =
                    IF @.op = "loadLocale"
                    THEN [@ EXCEPT !.pc = "done", !.outcome = "rejected",
                                   !.loader = "rejected"]
                    ELSE [@ EXCEPT !.pc = "failed", !.loader = "rejected"]]
    /\ UNCHANGED << locale, globalI18nOptions, defaultOptions, aliased, loaders,
                    stored, env, invoked, resolverVars >>

\* The loader awaited by call i rejects: loadLocale rethrows.
LoaderRejects(i) ==
    /\ calls[i].pc = "loading"
    /\ calls' = [calls EXCEPT ![i] =
                    IF @.op = "loadLocale"
                    THEN [@ EXCEPT !.pc = "done", !.outcome = "rejected",
                                   !.loader = "rejected"]
                    ELSE [@ EXCEPT !.pc = "failed", !.loader = "rejected"]]
    /\ UNCHANGED << locale, translations, globalI18nOptions, defaultOptions, aliased,
                    loaders, stored, env, invoked, resolverVars, node >>

\* setLocale that gives up its switch when a later call has been made.
SetLocaleResumes_LatestOnly(i) ==
    /\ calls[i].op = "setLocale"
    /\ calls[i].pc \in {"loaded", "failed"}
    /\ IF calls[i].pc = "failed" \/ i < Len(calls)
       THEN UNCHANGED << locale, stored, node >>
       ELSE SwitchTo(calls[i].arg)
    /\ calls' = [calls EXCEPT ![i] = [@ EXCEPT !.pc = "done", !.outcome = "resolved"]]
    /\ UNCHANGED << translations, globalI18nOptions, defaultOptions, aliased,
                    loaders, env, invoked, resolverVars >>

\* setLocale after its await: the catch block returns, otherwise the switch.
SetLocaleResumes(i) ==
    /\ calls[i].op = "setLocale"
    /\ calls[i].pc \in {"loaded", "failed"}
    /\ IF calls[i].pc = "failed"
       THEN UNCHANGED << locale, stored, node >>
       ELSE SwitchTo(calls[i].arg)
    /\ calls' = [calls EXCEPT ![i] =
                    [@ EXCEPT !.pc = "done",
                              !.outcome = IF calls[i].pc = "failed" THEN "resolved"
                                          ELSE SwitchOutcome(calls[i].arg)]]
    /\ UNCHANGED << translations, globalI18nOptions, defaultOptions, aliased,
                    loaders, env, invoked, resolverVars >>

\* initI18n after its await: a failed load is caught and dropped.
InitI18nResumes(i) ==
    /\ calls[i].op = "initI18n"
    /\ calls[i].pc \in {"loaded", "failed"}
    /\ calls' = [calls EXCEPT ![i] = [@ EXCEPT !.pc = "done", !.outcome = "resolved"]]
    /\ UNCHANGED << locale, translations, globalI18nOptions, defaultOptions, aliased,
                    loaders, stored, env, invoked, resolverVars, node >>

\* getCurrentTranslations read with the default locale instead of the current one.
getCurrentTranslations_Default == Lookup(translations, globalI18nOptions.defaultLocale)

\* getCurrentTranslations(): allTranslations[currentLocale]
getCurrentTranslations == Lookup(translations, locale)

\* waitLocale() up to its first await (README.md, lines 310-317; the function
\* body is not part of the sources): done at once when the current locale has
\* its tree, otherwise a load of the current locale is started.
WaitLocale ==
    /\ Len(calls) < MaxCalls
    /\ IF Truthy(getCurrentTranslations)
       THEN /\ calls' = Append(calls, Call("waitLocale", locale, "present",
                                           "done", "resolved"))
            /\ UNCHANGED invoked
       ELSE /\ calls' = Append(calls, Call("waitLocale", locale,
                                           LoadStartVia(locale),
                                           LoadStartPc(locale), "pending"))
            /\ invoked' = LoadStartInvoked(locale)
    /\ UNCHANGED << locale, translations, globalI18nOptions, defaultOptions, aliased,
                    loaders, stored, env, resolverVars, node >>

\* The deadline of waitLocale passes while its load is pending: the promise
\* rejects, the load goes on.
WaitLocaleTimesOut(i) ==
    /\ calls[i].op = "waitLocale"
    /\ calls[i].pc = "loading"
    /\ calls[i].outcome = "pending"
    /\ calls' = [calls EXCEPT ![i] = [@ EXCEPT !.outcome = "rejected"]]
    /\ UNCHANGED << locale, translations, globalI18nOptions, defaultOptions, aliased,
                    loaders, stored, env, invoked, resolverVars, node >>

\* waitLocale after its load: resolved when the load succeeded, rejected when
\* it failed, unless the deadline has settled the promise already.
WaitLocaleResumes(i) ==
    /\ calls[i].op = "waitLocale"
    /\ calls[i].pc \in {"loaded", "failed"}
    /\ calls' = [calls EXCEPT ![i] =
                    [@ EXCEPT !.pc = "done",
                              !.outcome = IF @ # "pending" THEN @
                                          ELSE IF calls[i].pc = "loaded"
                                          THEN "resolved" ELSE "rejected"]]
    /\ UNCHANGED << locale, translations, globalI18nOptions, defaultOptions, aliased,
                    loaders, stored, env, invoked, resolverVars, node >>

Next ==
    \/ \E l \in {"en", "fr"} : RegisterLocale(l, "loader", TreeA)
    \/ RegisterLocale("fr", "path", TreeA)
    \/ RegisterLocale("fr", "data", TreeB)
    \/ \E d \in {<<>>, [l \in {"ja"} |-> TreeB]} : SetTranslations(d)
    \/ \E l \in Locales : LoadLocale(l)
    \/ \E options \in InitArgs : InitI18n(options)
    \/ \E l \in Locales : SetLocale(l)
    \/ \E i \in 1..Len(calls) : LoaderResolves(i, TreeA)
    \/ \E i \in 1..Len(calls) : LoaderRejects(i)
    \/ \E i \in 1..Len(calls) : SetLocaleResumes(i)
    \/ \E i \in 1..Len(calls) : InitI18nResumes(i)
    \/ WaitLocale
    \/ \E i \in 1..Len(calls) : WaitLocaleTimesOut(i)
    \/ \E i \in 1..Len(calls) : WaitLocaleResumes(i)

Spec == InitSession /\ [][Next]_vars

\* ---------------------------------------------------------------------------
\* The translate action (use:translate) on one element.
\* ---------------------------------------------------------------------------

\* The options an action is created or updated with.
ActionKeys == {<<"a">>, <<"a", ".", "a">>}
ActionParams == {NoParams,
                 ParamsObj(<< <<<<"n">>, StrVal(<<"a">>)>> >>),
                 ParamsObj(<< <<<<"0">>, NumVal(12)>> >>)}

\* translate(node, options): the initial updateText(), then the two
\* subscriptions (each runs updateText once more, with the same result).  When
\* the initial updateText throws, translate throws: no action, no subscription.
Attach(key, params) ==
    /\ ~node.attached
    /\ LET n == [node EXCEPT !.key = key, !.params = params]
       IN  node' = IF updateTextThrows(n, locale, translations, globalI18nOptions)
                   THEN node
                   ELSE [updateText(n, locale, translations, globalI18nOptions)
                            EXCEPT !.attached = TRUE]
    /\ UNCHANGED << locale, translations, globalI18nOptions, defaultOptions, aliased,
                    loaders, stored, env, calls, invoked, resolverVars >>

\* update(newOptions): options = newOptions; updateText().
Update(key, params) ==
    /\ node.attached
    /\ node' = updateText([node EXCEPT !.key = key, !.params = params],
                          locale, translations, globalI18nOptions)
    /\ UNCHANGED << locale, translations, globalI18nOptions, defaultOptions, aliased,
                    loaders, stored, env, calls, invoked, resolverVars >>

\* destroy(): both subscriptions end.
Destroy ==
    /\ node.attached
    /\ node' = [node EXCEPT !.attached = FALSE]
    /\ UNCHANGED << locale, translations, globalI18nOptions, defaultOptions, aliased,
                    loaders, stored, env, calls, invoked, resolverVars >>

\* A page with one element under use:translate, whose application sets
\* datasets, registers a loader and switches the locale.
InitAction ==
    /\ InitSession
    /\ stored = None

NextAction ==
    \/ \E key \in ActionKeys, params \in ActionParams : Attach(key, params)
    \/ \E key \in ActionKeys, params \in ActionParams : Update(key, params)
    \/ Destroy
    \/ \E d \in {<<>>, [l \in {"ja"} |-> TreeB], [l \in {"en"} |-> TreeA]} :
            SetTranslations(d)
    \/ RegisterLocale("en", "loader", TreeA)
    \/ \E l \in {"ja", "en"} : SetLocale(l)
    \/ \E i \in 1..Len(calls) : LoaderResolves(i, TreeA)
    \/ \E i \in 1..Len(calls) : LoaderRejects(i)
    \/ \E i \in 1..Len(calls) : SetLocaleResumes(i)

SpecAction == InitAction /\ [][NextAction]_vars

(***************************************************************************)
(* What the claims speak of, stated without the code's loops: the path a   *)
(* key spells, the node a path ends on, the first hit of a lookup order,   *)
(* and the literal replacement of placeholders.                            *)
(***************************************************************************)
\* The positions that delimit the segments of key: before it, its dots, after it.
Cuts(key) == {0} \cup {i \in 1..Len(key) : key[i] = "."} \cup {Len(key) + 1}

NthCut(key, k) ==
    CHOOSE c \in Cuts(key) : Cardinality({d \in Cuts(key) : d < c}) = k - 1

PathOf(key) ==
    [k \in 1..(Cardinality(Cuts(key)) - 1) |->
        SubSeq(key, NthCut(key, k) + 1, NthCut(key, k + 1) - 1)]

\* The node the first n segments of path lead to from root, if any.
RECURSIVE NodeAt(_, _, _)
NodeAt(root, path, n) ==
    IF n = 0 THEN root
    ELSE LET parent == NodeAt(root, path, n - 1)
         IN  IF parent.kind = "object" /\ path[n] \in DOMAIN parent.kids
             THEN parent.kids[path[n]]
             ELSE Nullish

RootOf(tr, l) == IF l \in DOMAIN tr THEN tr[l] ELSE Obj(<<>>)

EndOf(tr, l, key) == NodeAt(RootOf(tr, l), PathOf(key), Len(PathOf(key)))

HasLeaf(tr, l, key) == EndOf(tr, l, key).kind = "string"

LeafOf(tr, l, key) == EndOf(tr, l, key).str

\* str with every literal occurrence of pat replaced by the text with.
RECURSIVE ReplaceLiteral(_, _, _)
ReplaceLiteral(str, pat, with) ==
    IF Len(str) < Len(pat) THEN str
    ELSE IF SubSeq(str, 1, Len(pat)) = pat
         THEN with \o ReplaceLiteral(SubSeq(str, Len(pat) + 1, Len(str)), pat, with)
    ELSE <<Head(str)>> \o ReplaceLiteral(Tail(str), pat, with)

\* Each parameter's placeholder replaced in turn, in the order of the mapping.
RECURSIVE Interpolated(_, _)
Interpolated(template, entries) ==
    IF entries = <<>> THEN template
    ELSE Interpolated(
            ReplaceLiteral(template, <<"{">> \o Head(entries)[1] \o <<"}">>,
                           String(Head(entries)[2])),
            Tail(entries))

\* The four lookups of a fallback resolution, in the order spec.md 4.1 gives.
FallbackOrder(l, key, fallbackKey, fallbackLocale) ==
    << <<l, key>>, <<l, fallbackKey>> >>
       \o (IF fallbackLocale # None /\ fallbackLocale # l
           THEN << <<fallbackLocale, key>>, <<fallbackLocale, fallbackKey>> >>
           ELSE <<>>)

FirstHit(tr, order, key, entries) ==
    IF \E i \in 1..Len(order) : HasLeaf(tr, order[i][1], order[i][2])
    THEN LET i == CHOOSE i \in 1..Len(order) :
                     /\ HasLeaf(tr, order[i][1], order[i][2])
                     /\ \A j \in 1..(i - 1) : ~HasLeaf(tr, order[j][1], order[j][2])
         IN  Interpolated(LeafOf(tr, order[i][1], order[i][2]), entries)
    ELSE key

FallbackLocaleOf(options) == options.fallbackLocale

\* The last call was fn(key, fallbackKey, ...): a key stands in second place.
WithFallbackKey == call.fn = "t" /\ call.arg2.ptype = "string"

(***************************************************************************)
(* C1.  If the path spelled by key does not end on a string leaf of        *)
(* dataset[locale] (locale absent, segment missing, intermediate node not  *)
(* a container, final node a container or another non-string), then       *)
(* getTranslate returns key unchanged and throws nothing.                  *)
(***************************************************************************)
C1_MissReturnsKey ==
    (call.fn = "getTranslate" /\ ~HasLeaf(translations, locale, call.key))
        => ret = Returned(call.key)

\* A miss through an intermediate node that is a string, not a container.
C1_Witness ==
    /\ call.fn = "getTranslate"
    /\ Len(PathOf(call.key)) = 2
    /\ NodeAt(RootOf(translations, locale), PathOf(call.key), 1).kind = "string"
    /\ ret = Returned(call.key)

(***************************************************************************)
(* C2.  If the path spelled by key exists in dataset[locale] and ends on a *)
(* string leaf, getTranslate called without params returns exactly that    *)
(* leaf.                                                                   *)
(***************************************************************************)
C2_HitReturnsLeaf ==
    (/\ call.fn = "getTranslate"
     /\ call.arg2 = NoParams
     /\ HasLeaf(translations, locale, call.key))
        => ret = Returned(LeafOf(translations, locale, call.key))

\* A nested leaf, two segments deep, returned.
C2_Witness ==
    /\ call.fn = "getTranslate"
    /\ call.arg2 = NoParams
    /\ Len(PathOf(call.key)) = 2
    /\ HasLeaf(translations, locale, call.key)
    /\ ret = Returned(LeafOf(translations, locale, call.key))
    /\ ret.val # call.key

(***************************************************************************)
(* C3.  When the key resolves to a template and params are supplied, the   *)
(* result is the template with every occurrence of each literal            *)
(* placeholder {paramKey} replaced by the string form of its value, and    *)
(* the text outside the placeholders unchanged.                            *)
(***************************************************************************)
C3_LiteralInterpolation ==
    (/\ call.fn = "getTranslate"
     /\ call.arg2.ptype = "object"
     /\ HasLeaf(translations, locale, call.key))
        => ret = Returned(Interpolated(LeafOf(translations, locale, call.key),
                                       call.arg2.entries))

(***************************************************************************)
(* C4.  A fallback resolution with (locale, key, fallbackKey,              *)
(* fallbackLocale) returns the first hit in the order (locale, key),       *)
(* (locale, fallbackKey), (fallbackLocale, key), (fallbackLocale,          *)
(* fallbackKey), and otherwise the original key.                           *)
(***************************************************************************)
C4_FallbackOrder ==
    WithFallbackKey
        => ret = Returned(FirstHit(translations,
                                   FallbackOrder(locale, call.key, call.arg2.s,
                                                 FallbackLocaleOf(globalI18nOptions)),
                                   call.key, call.arg3.entries))

(***************************************************************************)
(* C5.  getTranslateWithFallback: when key has no string leaf in the       *)
(* current locale, a fallbackLocale is configured and differs from it, and *)
(* key has a string leaf there, the result is the fallback locale's        *)
(* translation of key with params interpolated; when the current locale    *)
(* has the leaf, the result is the current locale's translation.           *)
(***************************************************************************)
C5_FallbackLocale ==
    call.fn = "getTranslateWithFallback" =>
        LET fl == FallbackLocaleOf(globalI18nOptions)
        IN  /\ (/\ ~HasLeaf(translations, locale, call.key)
                /\ fl # None
                /\ fl # locale
                /\ HasLeaf(translations, fl, call.key))
                  => ret = Returned(Interpolated(LeafOf(translations, fl, call.key),
                                                 call.arg2.entries))
            /\ HasLeaf(translations, locale, call.key)
                  => ret = Returned(Interpolated(LeafOf(translations, locale, call.key),
                                                 call.arg2.entries))

(***************************************************************************)
(* C6.  When neither key nor, if given, fallbackKey resolves to a string   *)
(* leaf in the current locale or in the fallback locale, the result of     *)
(* getTranslateWithFallback and of t is the original first key.            *)
(***************************************************************************)
NowhereLeaf(key) ==
    /\ ~HasLeaf(translations, locale, key)
    /\ FallbackLocaleOf(globalI18nOptions) # None
          => ~HasLeaf(translations, FallbackLocaleOf(globalI18nOptions), key)

C6_AllMissReturnsKey ==
    (/\ call.fn \in {"getTranslateWithFallback", "t"}
     /\ NowhereLeaf(call.key)
     /\ WithFallbackKey => NowhereLeaf(call.arg2.s))
        => /\ ret = Returned(call.key)
           /\ ret.val # <<>> \/ call.key = <<>>

\* t(key, fallbackKey) with both keys missing everywhere and a fallback
\* locale whose tree holds other entries.
C6_Witness ==
    /\ WithFallbackKey
    /\ call.key # call.arg2.s
    /\ NowhereLeaf(call.key)
    /\ NowhereLeaf(call.arg2.s)
    /\ FallbackLocaleOf(globalI18nOptions) = "en"
    /\ "en" \in DOMAIN translations
    /\ ret = Returned(call.key)

(***************************************************************************)
(* C7.  t(key, fallbackKey): when key has no translation in the current    *)
(* locale but has one in the configured fallback locale, t returns the     *)
(* fallback locale's translation of key, also when fallbackKey has a       *)
(* translation in the current locale.                                      *)
(***************************************************************************)
C7_FallbackLocaleBeforeFallbackKey ==
    (/\ WithFallbackKey
     /\ call.arg3 = NoParams
     /\ ~HasLeaf(translations, locale, call.key)
     /\ FallbackLocaleOf(globalI18nOptions) \notin {None, locale}
     /\ HasLeaf(translations, FallbackLocaleOf(globalI18nOptions), call.key))
        => ret = Returned(LeafOf(translations, FallbackLocaleOf(globalI18nOptions),
                                 call.key))

(***************************************************************************)
(* C8.  t(key, fallbackKey, params) where key is missing and fallbackKey   *)
(* resolves: the params are interpolated into the fallbackKey's template.  *)
(***************************************************************************)
C8_ParamsApplyToFallbackKey ==
    (/\ WithFallbackKey
     /\ call.arg3.ptype = "object"
     /\ NowhereLeaf(call.key)
     /\ HasLeaf(translations, locale, call.arg2.s))
        => ret = Returned(Interpolated(LeafOf(translations, locale, call.arg2.s),
                                       call.arg3.entries))

(***************************************************************************)
(* C9.  setLocale(l) with l outside supportedLocales changes nothing: the  *)
(* current locale, the dataset and the persisted preference are unchanged, *)
(* no loader is invoked, and the call completes without an error.          *)
(***************************************************************************)
\* This step is the call setLocale(l).
SetLocaleCalled(l) ==
    /\ Len(calls') = Len(calls) + 1
    /\ calls'[Len(calls')].op = "setLocale"
    /\ calls'[Len(calls')].arg = l

C9_UnsupportedLocaleNoChange ==
    [][\A l \in Locales :
          (SetLocaleCalled(l) /\ l \notin globalI18nOptions.supportedLocales)
              => /\ locale' = locale
                 /\ translations' = translations
                 /\ stored' = stored
                 /\ invoked' = invoked
                 /\ SubSeq(calls', 1, Len(calls)) = calls
                 /\ calls'[Len(calls')].pc = "done"
                 /\ calls'[Len(calls')].outcome = "resolved"]_vars

\* setLocale of an unsupported locale has returned, while a loader for some
\* locale is registered and the current locale is another one.
C9_Witness ==
    \E i \in 1..Len(calls) :
        /\ calls[i].op = "setLocale"
        /\ calls[i].via = "unsupported"
        /\ calls[i].arg \notin globalI18nOptions.supportedLocales
        /\ calls[i].outcome = "resolved"
        /\ locale # calls[i].arg
        /\ DOMAIN loaders # {}

(***************************************************************************)
(* C10.  If setLocale(l) has to load l (no tree for l in the dataset) and  *)
(* the load fails, the current locale and the persisted preference keep    *)
(* the values they had before the call: no step of that call changes them. *)
(* A load fails when its loader rejects or when no loader is registered    *)
(* (spec.md 4.3, LoadFailure).                                             *)
(***************************************************************************)
LoadFailed(c) == c.pc = "failed" \/ (c.via = "noloader" /\ c.pc = "loaded")

C10_FailedLoadKeepsLocale ==
    [][\A i \in 1..Len(calls) :
          (/\ calls[i].op = "setLocale"
           /\ LoadFailed(calls[i])
           /\ calls'[i] # calls[i])
              => (locale' = locale /\ stored' = stored)]_vars

(***************************************************************************)
(* C11.  If the load triggered by setLocale(l) fails, the failure is       *)
(* surfaced to the caller of setLocale: the call ends rejected, not as a   *)
(* normal completion.                                                      *)
(***************************************************************************)
C11_SetLocaleRejectsOnFailedLoad ==
    \A i \in 1..Len(calls) :
        (/\ calls[i].op = "setLocale"
         /\ calls[i].loader = "rejected"
         /\ calls[i].pc = "done")
            => calls[i].outcome = "rejected"

(***************************************************************************)
(* C12.  loadLocale(l) for a locale that has no registered loader is a     *)
(* load failure: the call is reported to its caller as rejected, like a    *)
(* loader that rejects, and does not complete normally.                    *)
(***************************************************************************)
C12_NoLoaderRejects ==
    \A i \in 1..Len(calls) :
        (/\ calls[i].op = "loadLocale"
         /\ calls[i].via = "noloader"
         /\ calls[i].pc = "done")
            => calls[i].outcome = "rejected"

(***************************************************************************)
(* C13.  When the loader invoked by loadLocale(l) rejects, the dataset is  *)
(* left exactly as it was, and the rejection propagates to the caller of   *)
(* loadLocale: a direct call ends rejected, and setLocale and initI18n     *)
(* find themselves in their catch block.                                   *)
(***************************************************************************)
\* In this step the loader awaited by call i rejects.
LoaderRejected(i) == calls[i].loader = "none" /\ calls'[i].loader = "rejected"

C13_RejectedLoadLeavesDataset ==
    [][\A i \in 1..Len(calls) :
          LoaderRejected(i)
              => /\ translations' = translations
                 /\ IF calls[i].op = "loadLocale"
                    THEN calls'[i].pc = "done" /\ calls'[i].outcome = "rejected"
                    ELSE calls'[i].pc = "failed"]_vars

\* A direct loadLocale has ended rejected while the dataset holds trees of
\* other locales.
C13_Witness ==
    \E i \in 1..Len(calls) :
        /\ calls[i].op = "loadLocale"
        /\ calls[i].loader = "rejected"
        /\ calls[i].outcome = "rejected"
        /\ calls[i].arg \notin DOMAIN translations
        /\ DOMAIN translations # {}

(***************************************************************************)
(* C14.  Under any interleaving of loads, setTranslations and direct       *)
(* registrations, a load of locale l that completes changes only           *)
(* dataset[l]: every other locale's tree present just before the merge is  *)
(* present and unchanged just after it.                                    *)
(***************************************************************************)
\* In this step the loader awaited by call i fulfils.
LoaderFulfilled(i) == calls[i].loader = "none" /\ calls'[i].loader = "fulfilled"

C14_LoadChangesOnlyItsLocale ==
    [][\A i \in 1..Len(calls) :
          LoaderFulfilled(i)
              => /\ DOMAIN translations' = DOMAIN translations \cup {calls[i].arg}
                 /\ \A x \in DOMAIN translations \ {calls[i].arg} :
                       translations'[x] = translations[x]]_vars

\* Two loads of different locales have completed, and the dataset holds both
\* trees.
C14_Witness ==
    \E i, j \in 1..Len(calls) :
        /\ calls[i].loader = "fulfilled"
        /\ calls[j].loader = "fulfilled"
        /\ calls[i].arg # calls[j].arg
        /\ {calls[i].arg, calls[j].arg} \subseteq DOMAIN translations

(***************************************************************************)
(* C15.  When setLocale calls for different supported locales overlap, no  *)
(* call blocks or cancels another: every call that gets its data performs  *)
(* its write, whatever calls were made after it, and touches no other      *)
(* call.  So the current locale is that of the call that wrote last, which *)
(* need not be the call issued last.                                       *)
(***************************************************************************)
\* In this step the setLocale call i returns.
SetLocaleEnds(i) ==
    /\ calls'[i].op = "setLocale"
    /\ calls'[i].pc = "done"
    /\ i <= Len(calls) => calls[i].pc # "done"

C15_LastWriteWins ==
    [][\A i \in 1..Len(calls') :
          (/\ SetLocaleEnds(i)
           /\ calls'[i].via # "unsupported"
           /\ calls'[i].loader # "rejected")
              => /\ locale' = calls'[i].arg
                 /\ \A j \in 1..Len(calls) : j # i => calls'[j] = calls[j]]_vars

\* The first call loaded its locale and wrote after the second call, issued
\* later for a locale already present, had written.
C15_Witness ==
    /\ Len(calls) = 2
    /\ calls[1].op = "setLocale" /\ calls[1].pc = "done"
    /\ calls[1].loader = "fulfilled"
    /\ calls[2].op = "setLocale" /\ calls[2].pc = "done"
    /\ calls[2].via = "present"
    /\ calls[1].arg # calls[2].arg
    /\ locale = calls[1].arg

WaitLocaleCalled ==
    /\ Len(calls') = Len(calls) + 1
    /\ calls'[Len(calls')].op = "waitLocale"

C17_WaitLocale ==
    [][WaitLocaleCalled =>
          LET c == calls'[Len(calls')]
          IN  IF locale \in DOMAIN translations /\ translations[locale].kind = "object"
              THEN /\ c.pc = "done"
                   /\ c.outcome = "resolved"
                   /\ invoked' = invoked
              ELSE /\ c.arg = locale
                   /\ c.via \in {"loader", "noloader"}
                   /\ c.outcome = "pending"
                   /\ invoked' = IF locale \in DOMAIN loaders
                                 THEN invoked + 1 ELSE invoked]_vars

\* One waitLocale started a load of the current locale, and a later one found
\* the tree present and returned at once.
C17_Witness ==
    \E i, j \in 1..Len(calls) :
        /\ calls[i].op = "waitLocale"
        /\ calls[i].via = "loader"
        /\ calls[j].op = "waitLocale"
        /\ calls[j].via = "present"
        /\ calls[j].outcome = "resolved"
        /\ invoked = 1

(***************************************************************************)
(* C18.  For every locale, dataset, key, params and configuration, the     *)
(* diagnostic variant of resolution (used by t when debug and              *)
(* missingTranslationWarnings are both on) returns the same string as the  *)
(* plain variant: the warnings never alter the returned value.             *)
(***************************************************************************)
DiagnosticsOn == globalI18nOptions.debug /\ globalI18nOptions.missingTranslationWarnings

C18_DebugVariantSameResult ==
    call.fn = "t"
        => ret = getTranslateWithFallback(globalI18nOptions, locale, translations,
                                          call.key, call.arg2)

\* With the diagnostics on, t missed in the current locale and returned the
\* fallback locale's text with its parameter filled in.
C18_Witness ==
    /\ call.fn = "t"
    /\ DiagnosticsOn
    /\ call.arg2.ptype = "object"
    /\ ~HasLeaf(translations, locale, call.key)
    /\ ~ret.thrown
    /\ ret.val # call.key
    /\ ret.val # LeafOf(translations, FallbackLocaleOf(globalI18nOptions), call.key)

(***************************************************************************)
(* C19.  Resolving a key (getTranslate, getTranslateWithFallback, the      *)
(* function held by t) leaves the session state unchanged: the current     *)
(* locale, the dataset, the configuration, the registered loaders and the  *)
(* persisted preference are the same after the call as before.             *)
(***************************************************************************)
C19_ResolveLeavesSession ==
    [][call' # call
          => /\ locale' = locale
             /\ translations' = translations
             /\ globalI18nOptions' = globalI18nOptions
             /\ defaultOptions' = defaultOptions
             /\ loaders' = loaders
             /\ stored' = stored]_vars

\* getTranslateWithFallback has answered from the fallback locale, and the
\* current locale is still the one it was called under.
C19_Witness ==
    /\ call.fn = "getTranslateWithFallback"
    /\ ~HasLeaf(translations, locale, call.key)
    /\ FallbackLocaleOf(globalI18nOptions) = "en"
    /\ HasLeaf(translations, "en", call.key)
    /\ ~ret.thrown
    /\ ret.val # call.key
    /\ locale = "ja"

(***************************************************************************)
(* C20.  Interpolation with an empty parameter mapping, or with parameters *)
(* none of whose placeholders occur in the template, returns the template  *)
(* unchanged.                                                              *)
(***************************************************************************)
\* pat occurs in str as a literal substring.
Occurs(pat, str) ==
    \E i \in 1..(Len(str) - Len(pat) + 1) : SubSeq(str, i, i + Len(pat) - 1) = pat

C20_NoPlaceholderNoChange ==
    (/\ call.fn = "getTranslate"
     /\ call.arg2.ptype = "object"
     /\ HasLeaf(translations, locale, call.key)
     /\ \A k \in 1..Len(call.arg2.entries) :
           ~Occurs(<<"{">> \o call.arg2.entries[k][1] \o <<"}">>,
                   LeafOf(translations, locale, call.key)))
        => ret = Returned(LeafOf(translations, locale, call.key))

(***************************************************************************)
(* C21.  Interpolation is one simultaneous substitution: a parameter value *)
(* that contains another supplied parameter's placeholder {otherKey} is    *)
(* inserted as it is and not expanded again, so the result does not depend *)
(* on the order of the parameters in the mapping.                          *)
(***************************************************************************)
\* The entry of entries whose placeholder starts at position i of str, or 0.
PlaceholderAt(str, i, entries) ==
    LET hits == {k \in 1..Len(entries) :
                    LET pat == <<"{">> \o entries[k][1] \o <<"}">>
                    IN  /\ i + Len(pat) - 1 <= Len(str)
                        /\ SubSeq(str, i, i + Len(pat) - 1) = pat}
    IN  IF hits = {} THEN 0 ELSE CHOOSE k \in hits : TRUE

\* One pass over str from position i: each placeholder gives way to the
\* string form of its value, and the inserted text is not looked at again.
RECURSIVE SimultaneousFrom(_, _, _)
SimultaneousFrom(str, i, entries) ==
    IF i > Len(str) THEN <<>>
    ELSE LET k == PlaceholderAt(str, i, entries)
         IN  IF k = 0
             THEN <<str[i]>> \o SimultaneousFrom(str, i + 1, entries)
             ELSE String(entries[k][2])
                     \o SimultaneousFrom(str, i + Len(entries[k][1]) + 2, entries)

\* A parameter the replacement does not mistreat on its own: the key is no
\* repetition count and the value holds no "$".
PlainEntry(e) ==
    /\ ~AllDigits(e[1])
    /\ \A i \in 1..Len(String(e[2])) : String(e[2])[i] # "$"

C21_SimultaneousSubstitution ==
    (/\ call.fn = "getTranslate"
     /\ call.arg2.ptype = "object"
     /\ HasLeaf(translations, locale, call.key)
     /\ \A k \in 1..Len(call.arg2.entries) : PlainEntry(call.arg2.entries[k]))
        => ret = Returned(SimultaneousFrom(LeafOf(translations, locale, call.key), 1,
                                           call.arg2.entries))

(***************************************************************************)
(* C22.  In every configuration reachable through initI18n and             *)
(* registerLocale, the fallbackLocale, when set, is a member of            *)
(* supportedLocales.                                                       *)
(***************************************************************************)
C22_FallbackLocaleSupported ==
    globalI18nOptions.fallbackLocale # None
        => globalI18nOptions.fallbackLocale \in globalI18nOptions.supportedLocales

(***************************************************************************)
(* C23.  After initI18n(options), whatever initI18n and registerLocale     *)
(* calls came before, the configured fallbackLocale equals                 *)
(* options.fallbackLocale when one was given and otherwise the effective   *)
(* defaultLocale of that call; a fallbackLocale left by an earlier         *)
(* initialisation does not survive.  The configuration is written in the   *)
(* first step of the call, and the step in which the call returns leaves   *)
(* it alone.                                                               *)
(***************************************************************************)
\* This step is a call of initI18n.
InitI18nCalled ==
    /\ Len(calls') = Len(calls) + 1
    /\ calls'[Len(calls')].op = "initI18n"

C23_FallbackLocaleOfInit ==
    [][/\ InitI18nCalled =>
             LET given == calls'[Len(calls')].options
             IN  globalI18nOptions'.fallbackLocale =
                     IF given.fallbackLocale # None THEN given.fallbackLocale
                     ELSE IF given.defaultLocale # None THEN given.defaultLocale
                     ELSE "ja"
       /\ \A i \in 1..Len(calls) :
             (calls[i].op = "initI18n" /\ calls'[i] # calls[i])
                 => globalI18nOptions' = globalI18nOptions]_vars

\* A first initI18n was given fallbackLocale "en"; after a second one without
\* it the fallbackLocale is the default locale of that second call.
C23_Witness ==
    /\ Len(calls) = 2
    /\ calls[1].op = "initI18n"
    /\ calls[1].options.fallbackLocale = "en"
    /\ calls[2].op = "initI18n"
    /\ calls[2].options.fallbackLocale = None
    /\ calls[2].pc = "done"
    /\ globalI18nOptions.fallbackLocale = globalI18nOptions.defaultLocale
    /\ globalI18nOptions.fallbackLocale # "en"

(***************************************************************************)
(* C24.  In a browser, initI18n sets the current locale to the persisted   *)
(* preference when one is stored; otherwise to the browser language when   *)
(* it is in supportedLocales; otherwise to defaultLocale.  Outside a       *)
(* browser it sets the current locale to defaultLocale.                    *)
(***************************************************************************)
C24_StartupLocale ==
    [][InitI18nCalled =>
          locale' = IF ~env.browser THEN globalI18nOptions'.defaultLocale
                    ELSE IF stored # None THEN stored
                    ELSE IF env.language \in globalI18nOptions'.supportedLocales
                    THEN env.language
                    ELSE globalI18nOptions'.defaultLocale]_vars

\* In a browser whose language is supported, with a preference stored for
\* another locale, initI18n has made the stored preference current.
C24_Witness ==
    /\ Len(calls) = 1
    /\ calls[1].op = "initI18n"
    /\ env.browser
    /\ stored # None
    /\ env.language \in globalI18nOptions.supportedLocales
    /\ env.language # stored
    /\ locale = stored

(***************************************************************************)
(* C25.  registerLocale(l, ...) only amends the allow-list: afterwards l   *)
(* is in supportedLocales, every locale supported before is still          *)
(* supported, and no other configuration field (defaultLocale,             *)
(* fallbackLocale, loadPath, debug, missingTranslationWarnings) has        *)
(* changed.  registerLocale and setTranslations are the steps that touch   *)
(* no call; a registration shows in the loader or the tree it leaves.      *)
(***************************************************************************)
\* In this step a loader is registered for l.
LoaderRegistered(l) ==
    /\ l \in DOMAIN loaders'
    /\ l \in DOMAIN loaders => loaders'[l] # loaders[l]

C25_RegisterOnlyAmends ==
    [][calls' = calls =>
          /\ globalI18nOptions.supportedLocales
                \subseteq globalI18nOptions'.supportedLocales
          /\ globalI18nOptions' =
                [globalI18nOptions EXCEPT
                    !.supportedLocales = globalI18nOptions'.supportedLocales]
          /\ \A l \in Locales :
                LoaderRegistered(l) => l \in globalI18nOptions'.supportedLocales
          /\ globalI18nOptions'.supportedLocales # globalI18nOptions.supportedLocales
                => \E l \in DOMAIN loaders' \cup DOMAIN translations' :
                      globalI18nOptions'.supportedLocales =
                          globalI18nOptions.supportedLocales \cup {l}]_vars

\* After an initI18n that set a fallbackLocale, fr has been registered: it is
\* supported next to ja and en, and the fallbackLocale is as it was.
C25_Witness ==
    /\ \E i \in 1..Len(calls) :
          calls[i].op = "initI18n" /\ calls[i].options.fallbackLocale = "en"
    /\ globalI18nOptions.fallbackLocale = "en"
    /\ globalI18nOptions.supportedLocales = {"ja", "en", "fr"}
    /\ "fr" \in DOMAIN loaders

\* The element shows the fallback-resolved translation of the action's key
\* and params under the current locale and dataset.
NodeShowsTranslation ==
    getTranslateWithFallback(globalI18nOptions, locale, translations,
                             node.key, node.params) = Returned(node.text)

\* C26. While a translate action is attached to an element, from its creation
\* on, after every change of the current locale or of the dataset and after
\* every update(newOptions) the element's text is the fallback-resolved
\* translation of the action's current key and params under the current
\* locale and dataset; once destroyed, the action no longer changes the text.
C26_ActionTextFollows ==
    [][/\ ( /\ node'.attached
            /\ \/ ~node.attached
               \/ locale' # locale
               \/ translations' # translations
               \/ node'.key # node.key
               \/ node'.params # node.params )
          => NodeShowsTranslation'
       /\ (~node.attached /\ ~node'.attached) => node'.text = node.text]_vars

\* C27. setLocale(l) for a supported locale whose tree is in the dataset
\* invokes no loader, makes l the current locale and, where there is a
\* storage, records l as the preference; setLocale invokes a loader only when
\* the dataset holds no tree for l at the call.
C27_PresentLocaleSwitchesWithoutLoad ==
    [][\A l \in Locales :
          SetLocaleCalled(l) =>
              /\ ( /\ l \in globalI18nOptions.supportedLocales
                   /\ Truthy(Lookup(translations, l)) )
                 => /\ invoked' = invoked
                    /\ locale' = l
                    /\ env.browser => stored' = l
                    /\ translations' = translations
              /\ invoked' # invoked => ~Truthy(Lookup(translations, l))]_vars

\* setLocale of a locale that has both a tree and a registered loader has
\* switched to it and recorded it, and no loader was ever invoked.
C27_Witness ==
    \E i \in 1..Len(calls) :
        /\ calls[i].op = "setLocale"
        /\ calls[i].arg \in DOMAIN loaders
        /\ Truthy(Lookup(translations, calls[i].arg))
        /\ calls[i].pc = "done"
        /\ invoked = 0
        /\ locale = calls[i].arg
        /\ stored = calls[i].arg

\* C28. Once initI18n has been called, the current locale is a member of
\* supportedLocales in every state, whatever initI18n, registerLocale,
\* setLocale, loadLocale and setTranslations calls follow, also when the
\* startup locale is the stored preference.
C28_CurrentLocaleSupported ==
    (\E i \in 1..Len(calls) : calls[i].op = "initI18n")
        => locale \in globalI18nOptions.supportedLocales

\* C29. A locale registered with registerLocale is a member of
\* supportedLocales in every later state, also after an initI18n call whose
\* options carry a supportedLocales list of their own: setLocale of a
\* registered locale is never turned down as unsupported.
C29_RegisteredStaysSupported ==
    \A l \in DOMAIN loaders : l \in globalI18nOptions.supportedLocales

\* C30. If key ends on a string leaf of the current locale, the result of
\* getTranslateWithFallback is that leaf with params interpolated, whatever
\* the fallback locale holds, also when the interpolated text is the very
\* string of the key.
C30_CurrentLocaleLeafWins ==
    (/\ call.fn = "getTranslateWithFallback"
     /\ HasLeaf(translations, locale, call.key))
        => ret.val = Interpolated(LeafOf(translations, locale, call.key),
                                  call.arg2.entries)

\* C31. Whenever a setLocale call makes l the current locale, the dataset
\* holds a tree for l at that moment: setLocale does not switch to a
\* supported locale for which no data could be obtained (none present and no
\* loader registered, or the loader failed).
C31_SwitchOnlyWithData ==
    [][\A i \in 1..Len(calls') :
          (/\ SetLocaleEnds(i)
           /\ locale' # locale
           /\ locale' = calls'[i].arg)
              => Truthy(Lookup(translations', locale'))]_vars

====
